---- MODULE Spec2Model ----
(***************************************************************************)
(* A model of the Hjson encoder of src/encode.go.                          *)
(*                                                                         *)
(* Text is a sequence of Unicode codepoints (naturals).  A Go string is a  *)
(* byte sequence; the encoder's regular expressions read it rune by rune   *)
(* and only quoteReplace looks at a byte (the first byte of a match), so   *)
(* the one byte-level fact the model needs is UTF8FirstByte.               *)
(***************************************************************************)
EXTENDS Integers, Sequences, FiniteSets, TLC

VARIABLES op, value, options, e, result

vars == <<op, value, options, e, result>>

----------------------------------------------------------------------------
(* Codepoints the source names.                                            *)

Backspace == 8
Tab == 9
Newline == 10
FormFeed == 12
CarriageReturn == 13
Space == 32
DoubleQuote == 34
Hash == 35
SingleQuote == 39
Star == 42
Comma == 44
Slash == 47
Colon == 58
LBracket == 91
Backslash == 92
RBracket == 93
LBrace == 123
RBrace == 125

(* Text literals of the source, spelled as codepoints.                     *)
TripleQuote == <<39, 39, 39>>
LineComment == <<47, 47>>
BlockComment == <<47, 42>>
KwTrue == <<116, 114, 117, 101>>
KwFalse == <<102, 97, 108, 115, 101>>
KwNull == <<110, 117, 108, 108>>
EmptyQuotes == <<34, 34>>
TxtZero == <<48>>
TxtEmptySlice == <<91, 93>>
TxtEmptyMap == <<123, 125>>

----------------------------------------------------------------------------
(* Go library functions the encoder calls.                                 *)

HasPrefix(s, p) ==
    /\ Len(s) >= Len(p)
    /\ \A i \in 1..Len(p) : s[i] = p[i]

Drop(s, n) == SubSeq(s, n + 1, Len(s))

Contains(s, p) ==
    \E i \in 0..(Len(s) - Len(p)) : \A j \in 1..Len(p) : s[i + j] = p[j]

RECURSIVE ReplaceAllChar(_, _)
(* strings.Replace(s, string(c), "", -1) *)
ReplaceAllChar(s, c) ==
    IF s = <<>> THEN <<>>
    ELSE IF Head(s) = c THEN ReplaceAllChar(Tail(s), c)
    ELSE <<Head(s)>> \o ReplaceAllChar(Tail(s), c)

RECURSIVE SplitFrom(_, _, _)
SplitFrom(s, c, cur) ==
    IF s = <<>> THEN <<cur>>
    ELSE IF Head(s) = c THEN <<cur>> \o SplitFrom(Tail(s), c, <<>>)
    ELSE SplitFrom(Tail(s), c, Append(cur, Head(s)))

(* strings.Split(s, string(c)): always at least one piece *)
Split(s, c) == SplitFrom(s, c, <<>>)

RECURSIVE Repeat(_, _)
Repeat(s, n) == IF n <= 0 THEN <<>> ELSE s \o Repeat(s, n - 1)

(* The first byte of the UTF-8 encoding of codepoint c (c < 65536). *)
UTF8FirstByte(c) ==
    IF c < 128 THEN c
    ELSE IF c < 2048 THEN 192 + (c \div 64)
    ELSE 224 + (c \div 4096)

(* Go's regexp class \s *)
IsSpace(c) == c \in {Tab, Newline, FormFeed, CarriageReturn, Space}

----------------------------------------------------------------------------
(* The compiled patterns of init().                                        *)

(* the character class of needsQuotes *)
QuoteWorthy(c) ==
    \/ c <= 31
    \/ c >= 127 /\ c <= 159
    \/ c = 173
    \/ c >= 1536 /\ c <= 1540
    \/ c = 1807
    \/ c = 6068 \/ c = 6069
    \/ c >= 8204 /\ c <= 8207
    \/ c >= 8232 /\ c <= 8239
    \/ c >= 8288 /\ c <= 8303
    \/ c = 65279
    \/ c >= 65520 /\ c <= 65535

(* the character class of needsEscape *)
EscapeWorthy(c) == c = Backslash \/ c = DoubleQuote \/ QuoteWorthy(c)

needsEscape(s) == \E i \in 1..Len(s) : EscapeWorthy(s[i])

needsQuotes(s) == \E i \in 1..Len(s) : QuoteWorthy(s[i])

needsQuotes2(s) ==
    /\ Len(s) > 0
    /\ \/ IsSpace(s[1])
       \/ s[1] = DoubleQuote
       \/ HasPrefix(s, TripleQuote)
       \/ s[1] = Hash
       \/ HasPrefix(s, BlockComment)
       \/ HasPrefix(s, LineComment)
       \/ s[1] = LBrace
       \/ s[1] = LBracket
       \/ IsSpace(s[Len(s)])

(* needsEscapeML without its first alternative *)
needsEscapeML_NoDelimiter(s) ==
    \E i \in 1..Len(s) :
        QuoteWorthy(s[i]) /\ s[i] # Newline /\ s[i] # CarriageReturn

needsEscapeML(s) ==
    \/ Contains(s, TripleQuote)
    \/ \E i \in 1..Len(s) :
          QuoteWorthy(s[i]) /\ s[i] # Newline /\ s[i] # CarriageReturn

RECURSIVE SkipSpaces(_)
SkipSpaces(s) ==
    IF s # <<>> /\ IsSpace(Head(s)) THEN SkipSpaces(Tail(s)) ELSE s

(* what may follow (true|false|null)\s* : nothing, or a punctuator or a   *)
(* comment opener and then anything but a line feed up to the end.         *)
KeywordTail(r) ==
    \/ r = <<>>
    \/ /\ \/ r[1] \in {Comma, RBracket, RBrace, Hash}
          \/ HasPrefix(r, LineComment)
          \/ HasPrefix(r, BlockComment)
       /\ \A i \in 1..Len(r) : r[i] # Newline

(* startsWithKeyword without the tail of its pattern *)
startsWithKeyword_Unanchored(s) ==
    \E kw \in {KwTrue, KwFalse, KwNull} : HasPrefix(s, kw)

startsWithKeyword(s) ==
    \E kw \in {KwTrue, KwFalse, KwNull} :
        HasPrefix(s, kw) /\ KeywordTail(SkipSpaces(Drop(s, Len(kw))))

needsEscapeName(s) ==
    \/ \E i \in 1..Len(s) :
          \/ s[i] \in {Comma, LBrace, LBracket, RBrace, RBracket, Colon, Hash,
                       DoubleQuote}
          \/ IsSpace(s[i])
    \/ Contains(s, LineComment)
    \/ Contains(s, BlockComment)
    \/ Contains(s, TripleQuote)

IsDigit(c) == c >= 48 /\ c <= 57

(* startsWithNumber is called by quote and defined outside src/encode.go:  *)
(* "the text, read from its start, parses as a valid JSON-style number".   *)
(* A JSON number can be read from the start of s exactly when s begins     *)
(* with a digit, or with a minus sign and a digit.                         *)
startsWithNumber(s) ==
    /\ Len(s) > 0
    /\ \/ IsDigit(s[1])
       \/ s[1] = 45 /\ Len(s) > 1 /\ IsDigit(s[2])

----------------------------------------------------------------------------
(* The substitution table and quoteReplace.                                *)

(* meta: byte -> replacement text; <<>> is Go's nil for a missing key *)
meta(b) ==
    CASE b = Backspace -> <<Backslash, 98>>
      [] b = Tab -> <<Backslash, 116>>
      [] b = Newline -> <<Backslash, 110>>
      [] b = FormFeed -> <<Backslash, 102>>
      [] b = CarriageReturn -> <<Backslash, 114>>
      [] b = DoubleQuote -> <<Backslash, DoubleQuote>>
      [] b = Backslash -> <<Backslash, Backslash>>
      [] OTHER -> <<>>

(* fmt.Sprintf("\\u%04x", c) where c is the nil []byte the table lookup    *)
(* returned: %04x of an empty byte slice is the padding alone.             *)
SprintfU04xNil == <<Backslash, 117, 48, 48, 48, 48>>

(* the replacement function handed to ReplaceAllFunc: a is one match, a    *)
(* whole rune, and a[0] is its first byte.                                 *)
ReplaceMatch(c) ==
    LET m == meta(UTF8FirstByte(c))
    IN  IF m # <<>> THEN m ELSE SprintfU04xNil

RECURSIVE quoteReplace(_)
quoteReplace(text) ==
    IF text = <<>> THEN <<>>
    ELSE (IF EscapeWorthy(Head(text)) THEN ReplaceMatch(Head(text))
          ELSE <<Head(text)>>) \o quoteReplace(Tail(text))

----------------------------------------------------------------------------
(* The encoder: hjsonEncoder is the output buffer, the options and the     *)
(* indentation depth.  depths and calls are history: every value e.indent  *)
(* has taken, and one record for every call of str that has returned, in   *)
(* the order of return: its arguments, the depth at entry and at return,   *)
(* the part of the buffer it wrote (from, to] and whether it returned      *)
(* without error.                                                          *)

DefaultOptions ==
    [Eol |-> <<Newline>>, BracesSameLine |-> FALSE, EmitRootBraces |-> TRUE,
     QuoteAlways |-> FALSE, IndentBy |-> <<Space, Space>>,
     AllowMinusZero |-> FALSE, UnknownAsNull |-> FALSE]

(* e := &hjsonEncoder{} and the five assignments that follow it: the Go    *)
(* zero value leaves every field that is not assigned FALSE.               *)
NewEncoder(o) ==
    [buf |-> <<>>, indent |-> 0,
     Eol |-> o.Eol, BracesSameLine |-> o.BracesSameLine,
     EmitRootBraces |-> o.EmitRootBraces, QuoteAlways |-> o.QuoteAlways,
     IndentBy |-> o.IndentBy,
     AllowMinusZero |-> FALSE, UnknownAsNull |-> FALSE,
     depths |-> {0}, calls |-> <<>>]

WriteString(enc, s) == [enc EXCEPT !.buf = @ \o s]

SetIndent(enc, n) == [enc EXCEPT !.indent = n, !.depths = @ \cup {n}]

writeIndent(enc, indent) ==
    WriteString(enc, enc.Eol \o Repeat(enc.IndentBy, indent))

RECURSIVE WriteLines(_, _, _)
(* the loop of mlString over the lines a[i..] *)
WriteLines(enc, a, i) ==
    IF i > Len(a) THEN enc
    ELSE LET indent == IF Len(a[i]) = 0 THEN 0 ELSE enc.indent + 1
         IN  WriteLines(WriteString(writeIndent(enc, indent), a[i]), a, i + 1)

(* mlString without the line break before the closing delimiter *)
mlString_NoClosingLine(enc, text, separator) ==
    LET a == Split(ReplaceAllChar(text, CarriageReturn), Newline)
        body ==
            IF Len(a) = 1
            THEN WriteString(WriteString(enc, separator \o TripleQuote), a[1])
            ELSE WriteLines(
                     WriteString(writeIndent(enc, enc.indent + 1),
                                 TripleQuote),
                     a, 1)
    IN  WriteString(body, TripleQuote)

mlString(enc, text, separator) ==
    LET a == Split(ReplaceAllChar(text, CarriageReturn), Newline)
        body ==
            IF Len(a) = 1
            THEN WriteString(WriteString(enc, separator \o TripleQuote), a[1])
            ELSE writeIndent(
                     WriteLines(
                         WriteString(writeIndent(enc, enc.indent + 1),
                                     TripleQuote),
                         a, 1),
                     enc.indent + 1)
    IN  WriteString(body, TripleQuote)

quote(enc, text, separator, isRootObject) ==
    IF Len(text) = 0 THEN WriteString(enc, separator \o EmptyQuotes)
    ELSE IF \/ enc.QuoteAlways
            \/ needsQuotes(text)
            \/ needsQuotes2(text)
            \/ startsWithNumber(text)
            \/ startsWithKeyword(text)
    THEN IF ~needsEscape(text)
         THEN WriteString(enc, separator \o <<DoubleQuote>> \o text
                                \o <<DoubleQuote>>)
         ELSE IF ~needsEscapeML(text) /\ ~isRootObject
         THEN mlString(enc, text, separator)
         ELSE WriteString(enc, separator \o <<DoubleQuote>>
                                \o quoteReplace(text) \o <<DoubleQuote>>)
    ELSE WriteString(enc, separator \o text)

quoteName(name) ==
    IF Len(name) = 0 THEN EmptyQuotes
    ELSE IF needsEscapeName(name)
    THEN <<DoubleQuote>>
         \o (IF needsEscape(name) THEN quoteReplace(name) ELSE name)
         \o <<DoubleQuote>>
    ELSE name

----------------------------------------------------------------------------
(* Key ordering: sort.Sort(SortAlpha(keys)).                               *)

RECURSIVE StringLess(_, _)
(* Go's < on strings: bytewise, which on UTF-8 is codepoint by codepoint *)
StringLess(a, b) ==
    IF b = <<>> THEN FALSE
    ELSE IF a = <<>> THEN TRUE
    ELSE IF Head(a) # Head(b) THEN Head(a) < Head(b)
    ELSE StringLess(Tail(a), Tail(b))

(* Less with the comparison turned round *)
Less_Descending(s, i, j) == StringLess(s[j].key, s[i].key)

(* SortAlpha.Less on the keys at i and j *)
Less(s, i, j) == StringLess(s[i].key, s[j].key)

(* SortAlpha.Swap *)
Swap(s, i, j) == [s EXCEPT ![i] = s[j], ![j] = s[i]]

RECURSIVE SiftDown(_, _)
(* the inner loop of the insertion sort sort.Sort runs on a short slice:   *)
(* for j := i; j > a && Less(j, j-1); j-- { Swap(j, j-1) }                 *)
SiftDown(s, j) ==
    IF j > 1 /\ Less(s, j, j - 1) THEN SiftDown(Swap(s, j, j - 1), j - 1)
    ELSE s

RECURSIVE InsertionSort(_, _)
InsertionSort(s, i) ==
    IF i > Len(s) THEN s ELSE InsertionSort(SiftDown(s, i), i + 1)

(* keys := value.MapKeys(); sort.Sort(SortAlpha(keys)): the entries of the *)
(* map, listed in the order MapKeys yields them, put in key order.         *)
SortedKeys(entries) == InsertionSort(entries, 2)

----------------------------------------------------------------------------
(* Numbers.                                                                *)

RECURSIVE Digits(_)
Digits(n) ==
    IF n < 10 THEN <<48 + n>> ELSE Append(Digits(n \div 10), 48 + (n % 10))

(* strconv.FormatInt(n, 10) *)
FormatInt(n) == IF n < 0 THEN <<45>> \o Digits(0 - n) ELSE Digits(n)

(* The floats of the model, by name, and what math and strconv say of      *)
(* them: FormatFloat(f, 'f', -1, 64) and FormatFloat(f, 'E', -1, 64).      *)
Floats == {"NaN", "+Inf", "-Inf", "-0", "+0", "1.5", "1e21"}

IsInf(f) == f \in {"+Inf", "-Inf"}

IsNaN(f) == f = "NaN"

(* number == -0: the constant -0 is the integer 0, so both zeros compare   *)
(* equal to it.                                                            *)
EqualsMinusZeroConstant(f) == f \in {"-0", "+0"}

FormatFloatF(f) ==
    CASE f = "-0" -> <<45, 48>>
      [] f = "+0" -> <<48>>
      [] f = "1.5" -> <<49, 46, 53>>
      [] f = "1e21" -> <<49>> \o [i \in 1..21 |-> 48]

FormatFloatE(f) ==
    CASE f = "-0" -> <<45, 48, 69, 43, 48, 48>>
      [] f = "+0" -> <<48, 69, 43, 48, 48>>
      [] f = "1.5" -> <<49, 46, 53, 69, 43, 48, 48>>
      [] f = "1e21" -> <<49, 69, 43, 50, 49>>

(* strings.ToLower on ASCII text *)
ToLower(s) == [i \in 1..Len(s) |-> IF s[i] >= 65 /\ s[i] <= 90 THEN s[i] + 32 ELSE s[i]]

(* the float branch of str, after the separator *)
FloatText(enc, f) ==
    IF IsInf(f) \/ IsNaN(f) THEN KwNull
    ELSE IF ~enc.AllowMinusZero /\ EqualsMinusZeroConstant(f) THEN TxtZero
    ELSE LET val == FormatFloatF(f)
             exp == FormatFloatE(f)
         IN  IF Len(exp) < Len(val) THEN ToLower(exp) ELSE val

----------------------------------------------------------------------------
(* str.  A value is a record tagged with its reflect.Kind:                 *)
(*   Nil      an untyped nil: reflect.ValueOf(nil) is the zero Value (kind *)
(*            Invalid); as an element or member it is a nil Interface      *)
(*   NilPtr   a typed nil pointer                                          *)
(*   String s, Bool b, Float f, Int n (Int..Int64), Uint n (Uint..Uintptr) *)
(*   Slice elems, Map entries (entries: <<[key, val], ...>> in the order   *)
(*   MapKeys yields the keys), Chan (a kind the switch has no case for)    *)
(* str returns the encoder and the error: NoError, an error value, or a    *)
(* panic that unwinds the call.                                            *)

NoError == [kind |-> "nil", msg |-> ""]

UnsupportedType(typ) == [kind |-> "error", msg |-> "Unsupported type " \o typ]

Panic(msg) == [kind |-> "panic", msg |-> msg]

Return(enc, err) == [e |-> enc, err |-> err]

(* reflect.Value.Type().String() of a value of an unsupported kind *)
TypeString(v) == "chan int"

(* the slice and map cases without their last statement *)
RestoreIndent_Skipped(enc, indent1) == enc

(* e.indent = indent1, the last statement of the slice and map cases *)
RestoreIndent(enc, indent1) == SetIndent(enc, indent1)

(* the opening delimiter of a non-empty slice or map *)
OpenContainer(enc, indent1, noIndent, separator, delim) ==
    WriteString(
        IF ~noIndent /\ ~enc.BracesSameLine THEN writeIndent(enc, indent1)
        ELSE WriteString(enc, separator),
        delim)

(* the closing delimiter of a non-empty slice or map *)
CloseContainer(enc, indent1, delim) ==
    WriteString(writeIndent(enc, indent1), delim)

RECURSIVE str(_, _, _, _, _), strCase(_, _, _, _, _), Elements(_, _, _),
          Members(_, _, _)

(* for i := 0; i < len; i++ of the slice case, from element i on *)
Elements(enc, elems, i) ==
    IF i > Len(elems) THEN Return(enc, NoError)
    ELSE LET r == str(writeIndent(enc, enc.indent), elems[i], TRUE, <<>>, FALSE)
         IN  IF r.err # NoError THEN r ELSE Elements(r.e, elems, i + 1)

(* for i := 0; i < len; i++ of the map case, from key i on *)
Members(enc, keys, i) ==
    IF i > Len(keys) THEN Return(enc, NoError)
    ELSE LET named == WriteString(
                          WriteString(writeIndent(enc, enc.indent),
                                      quoteName(keys[i].key)),
                          <<Colon>>)
             r == str(named, keys[i].val, FALSE, <<Space>>, FALSE)
         IN  IF r.err # NoError THEN r ELSE Members(r.e, keys, i + 1)

strCase(enc, v, noIndent, separator, isRootObject) ==
    CASE v.kind \in {"Nil", "NilPtr"} ->
            Return(WriteString(WriteString(enc, separator), KwNull), NoError)
      [] v.kind = "String" ->
            Return(quote(enc, v.s, separator, isRootObject), NoError)
      [] v.kind = "Int" ->
            Return(WriteString(WriteString(enc, separator), FormatInt(v.n)),
                   NoError)
      [] v.kind = "Uint" ->
            (* value.Int() panics on a Value of an unsigned kind *)
            Return(WriteString(enc, separator),
                   Panic("reflect: call of reflect.Value.Int on uint Value"))
      [] v.kind = "Float" ->
            Return(WriteString(WriteString(enc, separator),
                               FloatText(enc, v.f)),
                   NoError)
      [] v.kind = "Bool" ->
            Return(WriteString(WriteString(enc, separator),
                               IF v.b THEN KwTrue ELSE KwFalse),
                   NoError)
      [] v.kind = "Slice" ->
            IF Len(v.elems) = 0
            THEN Return(WriteString(WriteString(enc, separator),
                                    TxtEmptySlice),
                        NoError)
            ELSE LET indent1 == enc.indent
                     opened == OpenContainer(SetIndent(enc, enc.indent + 1),
                                             indent1, noIndent, separator,
                                             <<LBracket>>)
                     r == Elements(opened, v.elems, 1)
                 IN  IF r.err # NoError THEN r
                     ELSE Return(RestoreIndent(
                                     CloseContainer(r.e, indent1,
                                                    <<RBracket>>),
                                     indent1),
                                 NoError)
      [] v.kind = "Map" ->
            IF Len(v.entries) = 0
            THEN Return(WriteString(WriteString(enc, separator), TxtEmptyMap),
                        NoError)
            ELSE LET showBraces == ~isRootObject \/ enc.EmitRootBraces
                     indent1 == enc.indent
                     inner == SetIndent(enc, enc.indent + 1)
                     opened == IF showBraces
                               THEN OpenContainer(inner, indent1, noIndent,
                                                  separator, <<LBrace>>)
                               ELSE inner
                     r == Members(opened, SortedKeys(v.entries), 1)
                 IN  IF r.err # NoError THEN r
                     ELSE Return(RestoreIndent(
                                     IF showBraces
                                     THEN CloseContainer(r.e, indent1,
                                                         <<RBrace>>)
                                     ELSE r.e,
                                     indent1),
                                 NoError)
      [] OTHER ->
            IF enc.UnknownAsNull
            THEN Return(WriteString(enc, KwNull), NoError)
            ELSE IF v.kind = "Invalid"
            THEN (* value.Type() panics on the zero Value *)
                 Return(enc, Panic("reflect: call of reflect.Value.Type on zero Value"))
            ELSE Return(enc, UnsupportedType(TypeString(v)))

str(enc, v, noIndent, separator, isRootObject) ==
    LET r == strCase(enc, v, noIndent, separator, isRootObject)
    IN  [r EXCEPT !.e.calls =
            Append(@, [v |-> v, separator |-> separator,
                       isRootObject |-> isRootObject,
                       entry |-> enc.indent, exit |-> r.e.indent,
                       from |-> Len(enc.buf), to |-> Len(r.e.buf),
                       ok |-> r.err = NoError])]

(* reflect.ValueOf(v) *)
ValueOf(v) == IF v.kind = "Nil" THEN [kind |-> "Invalid"] ELSE v

(* MarshalWithOptions: the encoder after the call and what the call        *)
(* returns, (e.Bytes(), nil) or (nil, err); a panic leaves the caller with *)
(* neither.                                                                *)
MarshalWithOptions(v, o) ==
    LET r == str(NewEncoder(o), ValueOf(v), TRUE, <<>>, TRUE)
    IN  [e |-> r.e,
         bytes |-> IF r.err = NoError THEN r.e.buf ELSE <<>>,
         err |-> r.err]

Marshal(v) == MarshalWithOptions(v, DefaultOptions)

----------------------------------------------------------------------------
(* The inputs.                                                             *)

MaxNodes == 4
MaxTokens == 2
MaxNest == 1

StringValue(s) == [kind |-> "String", s |-> s]
IntValue(n) == [kind |-> "Int", n |-> n]
UintValue(n) == [kind |-> "Uint", n |-> n]
FloatValue(f) == [kind |-> "Float", f |-> f]
BoolValue(b) == [kind |-> "Bool", b |-> b]
SliceValue(elems) == [kind |-> "Slice", elems |-> elems]
MapValue(entries) == [kind |-> "Map", entries |-> entries]
NilValue == [kind |-> "Nil"]
NilPtrValue == [kind |-> "NilPtr"]
ChanValue == [kind |-> "Chan"]

(* keys: "B" < "a" < "ab" in Go's string order *)
Keys == {<<66>>, <<97>>, <<97, 98>>}

TreeLeaves == {IntValue(1), ChanValue}

(* sequences of n distinct keys *)
KeyLists(n) ==
    {ks \in [1..n -> Keys] : \A i, j \in 1..n : i # j => ks[i] # ks[j]}

RECURSIVE Trees(_), Forests(_)

(* the non-empty sequences of trees with n nodes in all *)
Forests(n) ==
    UNION {{<<t>> \o f : t \in Trees(k),
                         f \in IF k = n THEN {<<>>} ELSE Forests(n - k)} :
           k \in 1..n}

(* the value trees with exactly n nodes: a leaf or an empty container is   *)
(* one node; a map lists its entries in the order MapKeys yields them.     *)
Trees(n) ==
    IF n = 1 THEN TreeLeaves \cup {SliceValue(<<>>), MapValue(<<>>)}
    ELSE {SliceValue(f) : f \in Forests(n - 1)}
         \cup UNION {{MapValue([i \in 1..Len(f) |->
                                   [key |-> ks[i], val |-> f[i]]]) :
                         ks \in KeyLists(Len(f))} :
                     f \in Forests(n - 1)}

(* the pieces strings are put together from: one character each, but for   *)
(* the triple-quote delimiter and a keyword.                               *)
Tokens ==
    {<<97>>, <<Space>>, <<Newline>>, <<CarriageReturn>>, <<Tab>>,
     <<Backslash>>, <<DoubleQuote>>, <<SingleQuote>>, TripleQuote, <<Hash>>,
     <<Slash>>, <<Star>>, <<LBrace>>, <<LBracket>>, <<Comma>>, <<49>>, <<1>>,
     <<173>>, KwTrue}

RECURSIVE Concat(_)
Concat(ts) == IF ts = <<>> THEN <<>> ELSE Head(ts) \o Concat(Tail(ts))

(* the token sequences strings are made of, up to MaxTokens tokens *)
TokenLists == [n \in 0..MaxTokens |-> [1..n -> Tokens]]

RECURSIVE Nested(_, _)
(* v inside d one-element slices *)
Nested(v, d) == IF d = 0 THEN v ELSE SliceValue(<<Nested(v, d - 1)>>)

(* where a value is put: the root value, or a slice element or a map       *)
(* member at depth 1..MaxNest                                              *)
Positions ==
    {[where |-> "root", depth |-> 0]}
        \cup {[where |-> w, depth |-> d] :
                 w \in {"element", "member"}, d \in 1..MaxNest}

Place(v, p) ==
    CASE p.where = "root" -> v
      [] p.where = "element" -> Nested(v, p.depth)
      [] p.where = "member" ->
            Nested(MapValue(<<[key |-> <<97>>, val |-> v]>>), p.depth - 1)

Scalars ==
    {NilValue, NilPtrValue, BoolValue(TRUE), BoolValue(FALSE), IntValue(-12),
     IntValue(0), IntValue(7), UintValue(7), StringValue(<<>>),
     StringValue(<<97>>), ChanValue, SliceValue(<<>>), MapValue(<<>>)}
        \cup {FloatValue(f) : f \in Floats}

EolChoices == {<<Newline>>, <<CarriageReturn, Newline>>}

AllOptions ==
    {[DefaultOptions EXCEPT !.BracesSameLine = o.b, !.EmitRootBraces = o.r,
                            !.QuoteAlways = o.q, !.AllowMinusZero = o.z,
                            !.UnknownAsNull = o.u, !.Eol = o.eol] :
        o \in [b : BOOLEAN, r : BOOLEAN, q : BOOLEAN, z : BOOLEAN,
               u : BOOLEAN, eol : EolChoices]}

TreeOptions == {o \in AllOptions : ~o.QuoteAlways /\ ~o.AllowMinusZero
                                   /\ ~o.UnknownAsNull
                                   /\ o.Eol = <<Newline>>}

StringOptions == {o \in AllOptions : ~o.AllowMinusZero /\ ~o.UnknownAsNull}

----------------------------------------------------------------------------
(* The state machine.  value and options are the arguments of the call,    *)
(* op the call made, e the call's encoder and result what it returned.     *)

NotCalled == "none"

Pending == [bytes |-> <<>>, err |-> [kind |-> "pending", msg |-> ""]]

InitWith(v, os) ==
    /\ op = NotCalled
    /\ value = v
    /\ options \in os
    /\ e = NewEncoder(options)
    /\ result = Pending

Init == \E n \in 1..MaxNodes : \E v \in Trees(n) : InitWith(v, TreeOptions)

InitString ==
    \E n \in 0..MaxTokens : \E ts \in TokenLists[n] : \E p \in Positions :
        InitWith(Place(StringValue(Concat(ts)), p), StringOptions)

InitScalar ==
    \E v \in Scalars : \E p \in Positions : InitWith(Place(v, p), AllOptions)

Call(name, r) ==
    /\ op' = name
    /\ e' = r.e
    /\ result' = [bytes |-> r.bytes, err |-> r.err]
    /\ UNCHANGED <<value, options>>

(* Marshal(value) *)
MarshalCall ==
    /\ op = NotCalled
    /\ options = DefaultOptions
    /\ Call("Marshal", Marshal(value))

(* MarshalWithOptions(value, options) *)
MarshalWithOptionsCall ==
    /\ op = NotCalled
    /\ Call("MarshalWithOptions", MarshalWithOptions(value, options))

(* e.quoteReplace(text) on the encoder as constructed *)
QuoteReplaceCall ==
    /\ op = NotCalled
    /\ value.kind = "String"
    /\ Call("quoteReplace",
            [e |-> e, bytes |-> quoteReplace(value.s), err |-> NoError])

Next == MarshalCall \/ MarshalWithOptionsCall

NextString == MarshalCall \/ MarshalWithOptionsCall \/ QuoteReplaceCall

Spec == Init /\ [][Next]_vars

SpecString == InitString /\ [][NextString]_vars

SpecScalar == InitScalar /\ [][Next]_vars

----------------------------------------------------------------------------
(* What the properties below read off a state.                             *)

Called == op \in {"Marshal", "MarshalWithOptions"}

CallIds == 1..Len(e.calls)

IsContainer(c) == c.v.kind \in {"Slice", "Map"}

NonEmpty(c) ==
    \/ c.v.kind = "Slice" /\ Len(c.v.elems) > 0
    \/ c.v.kind = "Map" /\ Len(c.v.entries) > 0

(* the text a call of str wrote *)
Span(c) == SubSeq(e.buf, c.from + 1, c.to)

HasSuffix(s, p) ==
    /\ Len(s) >= Len(p)
    /\ \A i \in 1..Len(p) : s[Len(s) - Len(p) + i] = p[i]

(* pat stands in text right after the first i characters *)
OccursAt(text, pat, i) ==
    /\ i + Len(pat) <= Len(text)
    /\ \A j \in 1..Len(pat) : text[i + j] = pat[j]

(* the first place in from..to where pat stands in text, or -1 *)
FirstAt(text, pat, from, to) ==
    IF \E i \in from..to : OccursAt(text, pat, i)
    THEN CHOOSE i \in from..to :
            /\ OccursAt(text, pat, i)
            /\ \A j \in from..(i - 1) : ~OccursAt(text, pat, j)
    ELSE -1

(* a comes before b in lexicographic order of the key text *)
LexLess(a, b) ==
    \E i \in 1..Len(b) :
        /\ i <= Len(a) + 1
        /\ \A j \in 1..(i - 1) : a[j] = b[j]
        /\ i = Len(a) + 1 \/ a[i] < b[i]

(* the line that starts the member of key k of the map call c *)
KeyLine(c, k) == e.Eol \o Repeat(e.IndentBy, c.entry + 1) \o k \o <<Colon>>

KeyAt(c, k) == FirstAt(e.buf, KeyLine(c, k), c.from, c.to)

RECURSIVE Ascending(_)
(* the entries put in ascending order of key: the least key first *)
Ascending(entries) ==
    IF entries = <<>> THEN <<>>
    ELSE LET n == Len(entries)
             m == CHOOSE i \in 1..n :
                     \A j \in 1..n : j # i =>
                        LexLess(entries[i].key, entries[j].key)
         IN  <<entries[m]>>
             \o Ascending(SubSeq(entries, 1, m - 1) \o SubSeq(entries, m + 1, n))

RECURSIVE KeyOrdered(_)
(* the value v, every map of it yielding its keys in ascending order: one  *)
(* value for all the values that differ from v in these orders alone       *)
KeyOrdered(v) ==
    CASE v.kind = "Slice" ->
            SliceValue([i \in 1..Len(v.elems) |-> KeyOrdered(v.elems[i])])
      [] v.kind = "Map" ->
            MapValue(Ascending([i \in 1..Len(v.entries) |->
                                   [key |-> v.entries[i].key,
                                    val |-> KeyOrdered(v.entries[i].val)]]))
      [] OTHER -> v

----------------------------------------------------------------------------
(* C1: in the output of every map, at the root or nested, the members      *)
(* stand in ascending lexicographic order of their keys, whatever order    *)
(* the map yields its keys in; and the call returns what it returns when   *)
(* every map yields its keys in ascending order, so the same for every     *)
(* order the maps may yield them in.                                       *)
C1_KeysAscending ==
    /\ \A i \in CallIds :
          LET c == e.calls[i]
          IN  c.v.kind = "Map" /\ c.ok =>
                 LET at == [x \in 1..Len(c.v.entries) |->
                               KeyAt(c, c.v.entries[x].key)]
                 IN  \A x, y \in 1..Len(c.v.entries) :
                        /\ at[x] >= 0
                        /\ LexLess(c.v.entries[x].key, c.v.entries[y].key)
                              => at[x] < at[y]
    /\ Called =>
          LET r == MarshalWithOptions(KeyOrdered(value), options)
          IN  r.bytes = result.bytes /\ r.err = result.err

(* a nested map of two members or more whose keys the host yields out of   *)
(* order has been encoded                                                  *)
C1_Witness ==
    /\ Called
    /\ result.err = NoError
    /\ \E i \in CallIds :
          LET c == e.calls[i]
          IN  /\ c.v.kind = "Map" /\ c.ok /\ c.entry >= 1
              /\ \E x, y \in 1..Len(c.v.entries) :
                    x < y /\ LexLess(c.v.entries[y].key, c.v.entries[x].key)

(* C8: every call of str on a slice or map that returns without error      *)
(* leaves the indentation depth as it found it, the depth is never         *)
(* negative, and every call is entered at the depth that is the number of  *)
(* containers around it, so siblings are indented alike.                   *)
C8_IndentRestored ==
    /\ \A i \in CallIds :
          LET c == e.calls[i]
          IN  IsContainer(c) /\ c.ok => c.exit = c.entry
    /\ \A d \in e.depths : d >= 0
    /\ e.indent >= 0
    /\ \A i \in CallIds :
          e.calls[i].entry =
             Cardinality({j \in CallIds :
                             /\ j # i
                             /\ NonEmpty(e.calls[j])
                             /\ e.calls[j].from <= e.calls[i].from
                             /\ e.calls[i].to <= e.calls[j].to})

(* a non-empty container nested in another has returned without error and *)
(* a sibling was encoded after it                                          *)
C8_Witness ==
    /\ Called
    /\ \E i, j \in CallIds :
          /\ i < j
          /\ NonEmpty(e.calls[i]) /\ e.calls[i].ok /\ e.calls[i].entry = 1
          /\ e.calls[j].entry = 1
          /\ e.calls[j].from >= e.calls[i].to

----------------------------------------------------------------------------
(* The forms of a string in the output, told by the text alone.            *)

IsStringCall(c) == c.v.kind = "String"

(* the string is the root value of the document *)
IsRootString == value.kind = "String"

BareForm(c) == Span(c) = c.separator \o c.v.s

PlainQuotedForm(c) ==
    Span(c) = c.separator \o <<DoubleQuote>> \o c.v.s \o <<DoubleQuote>>

(* between double quotes, with no raw control character and no double      *)
(* quote but after a backslash                                             *)
EscapedQuotedForm(c) ==
    LET q == Drop(Span(c), Len(c.separator))
    IN  /\ HasPrefix(Span(c), c.separator)
        /\ Len(q) >= 2
        /\ q[1] = DoubleQuote /\ q[Len(q)] = DoubleQuote
        /\ \A i \in 2..(Len(q) - 1) :
              /\ q[i] >= 32
              /\ q[i] = DoubleQuote => q[i - 1] = Backslash

(* the line the delimiters of a block stand on: a line break and the       *)
(* indentation one deeper than the depth the string is written at          *)
DelimiterLine(c) == e.Eol \o Repeat(e.IndentBy, c.entry + 1) \o TripleQuote

MultilineForm(c) ==
    \/ HasPrefix(Span(c), c.separator \o TripleQuote)
    \/ HasPrefix(Span(c), DelimiterLine(c))

(* C2: a string that contains the triple-quote delimiter, or that is the   *)
(* root value, is never written in the multiline form: it is written bare, *)
(* between double quotes as it is, or between double quotes escaped.       *)
C2_NoMultiline ==
    \A i \in CallIds :
       LET c == e.calls[i]
       IN  IsStringCall(c) /\ (Contains(c.v.s, TripleQuote) \/ IsRootString) =>
              /\ ~MultilineForm(c)
              /\ BareForm(c) \/ PlainQuotedForm(c) \/ EscapedQuotedForm(c)

(* a nested string that holds the delimiter and a character that needs     *)
(* escaping has been written, escaped                                      *)
C2_Witness ==
    /\ Called
    /\ \E i \in CallIds :
          LET c == e.calls[i]
          IN  /\ IsStringCall(c) /\ ~IsRootString
              /\ Contains(c.v.s, TripleQuote)
              /\ \E j \in 1..Len(c.v.s) : c.v.s[j] \in {Newline, Backslash}
              /\ EscapedQuotedForm(c) /\ ~PlainQuotedForm(c)

----------------------------------------------------------------------------
(* The words of C3, read by themselves.                                    *)

(* a C0 control, DEL or a C1 control *)
IsControl(c) == c < 32 \/ (c >= 127 /\ c <= 159)

HasControl(s) == \E i \in 1..Len(s) : IsControl(s[i])

IsSpaceChar(c) == c \in {9, 10, 11, 12, 13, 32}

SpaceAtAnEnd(s) == Len(s) > 0 /\ (IsSpaceChar(s[1]) \/ IsSpaceChar(s[Len(s)]))

(* s starts as a container, a comment or a quoted string would *)
StructuralPrefix(s) ==
    \E p \in {<<LBrace>>, <<LBracket>>, <<Hash>>, LineComment, BlockComment,
              <<DoubleQuote>>, TripleQuote} : HasPrefix(s, p)

(* a number can be read at the start of s *)
NumberShaped(s) ==
    \E sign \in {<<>>, <<45>>} :
        /\ HasPrefix(s, sign)
        /\ Len(s) > Len(sign)
        /\ s[Len(sign) + 1] \in 48..57

(* true, false or null, then white space only, then the end or one of      *)
(* , ] } # // /* and anything after it                                     *)
KeywordShaped(s) ==
    \E kw \in {KwTrue, KwFalse, KwNull} : \E n \in Len(kw)..Len(s) :
        /\ HasPrefix(s, kw)
        /\ \A i \in (Len(kw) + 1)..n : IsSpaceChar(s[i])
        /\ \/ n = Len(s)
           \/ \E p \in {<<Comma>>, <<RBracket>>, <<RBrace>>, <<Hash>>,
                        LineComment, BlockComment} : OccursAt(s, p, n)

PlainText(s) ==
    /\ ~HasControl(s)
    /\ ~SpaceAtAnEnd(s)
    /\ ~StructuralPrefix(s)
    /\ ~NumberShaped(s)
    /\ ~KeywordShaped(s)

(* C3 as stated: with default options, a string with no control character, *)
(* no white space at either end, no structural or comment prefix and not   *)
(* shaped as a number or a keyword is encoded as itself.                   *)
C3_BareAsStated ==
    Called /\ options = DefaultOptions /\ IsRootString /\ PlainText(value.s) =>
        result.err = NoError /\ result.bytes = value.s

(* C3, amended: the same of a string that is not empty and holds no        *)
(* character of the needsQuotes class (the controls and the Unicode format *)
(* characters); nested, it is written as the separator and itself.         *)
C3_Bare ==
    Called /\ options = DefaultOptions =>
        \A i \in CallIds :
           LET c == e.calls[i]
           IN  /\ IsStringCall(c)
               /\ c.v.s # <<>>
               /\ \A j \in 1..Len(c.v.s) : ~QuoteWorthy(c.v.s[j])
               /\ PlainText(c.v.s)
               => /\ BareForm(c)
                  /\ IsRootString =>
                        result.err = NoError /\ result.bytes = value.s

(* a root string that starts with a keyword, or holds a backslash or a     *)
(* double quote, has been written bare                                     *)
C3_Witness ==
    /\ Called /\ options = DefaultOptions /\ IsRootString
    /\ Len(value.s) >= 2
    /\ \A j \in 1..Len(value.s) : ~QuoteWorthy(value.s[j])
    /\ PlainText(value.s)
    /\ \/ HasPrefix(value.s, KwTrue)
       \/ \E j \in 1..Len(value.s) : value.s[j] \in {Backslash, DoubleQuote}
    /\ result.bytes = value.s

----------------------------------------------------------------------------
RECURSIVE Replant(_, _)
(* the value with its one string replaced by t *)
Replant(v, t) ==
    CASE v.kind = "String" -> StringValue(t)
      [] v.kind = "Slice" -> SliceValue(<<Replant(v.elems[1], t)>>)
      [] v.kind = "Map" ->
            MapValue(<<[key |-> v.entries[1].key,
                        val |-> Replant(v.entries[1].val, t)]>>)

RECURSIVE StringOf(_)
(* the one string of the value *)
StringOf(v) ==
    CASE v.kind = "String" -> v.s
      [] v.kind = "Slice" -> StringOf(v.elems[1])
      [] v.kind = "Map" -> StringOf(v.entries[1].val)

(* C4: no other string, encoded in the same place under the same options,  *)
(* gives the text this string gave (so a decoder can give the string       *)
(* back).                                                                  *)
C4_Injective ==
    Called =>
        \A n \in 0..MaxTokens : \A ts \in TokenLists[n] :
           LET t == Concat(ts)
           IN  t # StringOf(value) =>
                  MarshalWithOptions(Replant(value, t), options).bytes
                     # result.bytes

----------------------------------------------------------------------------
(* lower-case hexadecimal digit *)
HexDigit(d) == IF d < 10 THEN 48 + d ELSE 87 + d

(* the escape \uXXXX of codepoint c *)
UnicodeEscape(c) ==
    <<Backslash, 117, HexDigit(c \div 4096), HexDigit((c \div 256) % 16),
      HexDigit((c \div 16) % 16), HexDigit(c % 16)>>

(* the two-character escapes: \b \t \n \f \r \" \\ *)
ShortEscapes ==
    [c \in {8, 9, 10, 12, 13, 34, 92} |->
        CASE c = 8 -> 98 [] c = 9 -> 116 [] c = 10 -> 110 [] c = 12 -> 102
          [] c = 13 -> 114 [] c = 34 -> 34 [] c = 92 -> 92]

RECURSIVE Escaped(_)
Escaped(s) ==
    IF s = <<>> THEN <<>>
    ELSE (IF Head(s) \in DOMAIN ShortEscapes
          THEN <<Backslash, ShortEscapes[Head(s)]>>
          ELSE IF EscapeWorthy(Head(s)) THEN UnicodeEscape(Head(s))
          ELSE <<Head(s)>>) \o Escaped(Tail(s))

(* C9: quoteReplace writes the two-character escape of a character of the  *)
(* table, backslash-u and the four hex digits of its codepoint for any     *)
(* other escape-worthy character, and every other character as it is.      *)
C9_Escapes == op = "quoteReplace" => result.bytes = Escaped(value.s)

----------------------------------------------------------------------------
(* C10 as stated: whenever a string is written in the multiline form, the  *)
(* closing delimiter stands on a line of its own, after a line break and   *)
(* the indentation of depth + 1.                                           *)
C10_CloserOnOwnLineAsStated ==
    \A i \in CallIds :
       LET c == e.calls[i]
       IN  IsStringCall(c) /\ MultilineForm(c) =>
              /\ HasSuffix(Span(c), DelimiterLine(c))
              /\ Len(Span(c)) >= 2 * Len(DelimiterLine(c))

(* C10, amended: so it is when the string holds a line feed; a string      *)
(* with none is written on one line, delimiter, the string without its     *)
(* carriage returns, delimiter.                                            *)
C10_CloserOnOwnLine ==
    \A i \in CallIds :
       LET c == e.calls[i]
       IN  IsStringCall(c) /\ MultilineForm(c) =>
              IF \E j \in 1..Len(c.v.s) : c.v.s[j] = Newline
              THEN /\ HasPrefix(Span(c), DelimiterLine(c))
                   /\ HasSuffix(Span(c), DelimiterLine(c))
                   /\ Len(Span(c)) >= 2 * Len(DelimiterLine(c))
              ELSE Span(c) = c.separator \o TripleQuote
                             \o SelectSeq(c.v.s, LAMBDA x : x # CarriageReturn)
                             \o TripleQuote

(* a string of several lines, the last of them not empty, has been written *)
(* in the multiline form                                                   *)
C10_Witness ==
    /\ Called
    /\ \E i \in CallIds :
          LET c == e.calls[i]
          IN  /\ IsStringCall(c) /\ MultilineForm(c)
              /\ \E j \in 1..Len(c.v.s) : c.v.s[j] = Newline
              /\ c.v.s[Len(c.v.s)] = 97

----------------------------------------------------------------------------
(* C5: with UnknownAsNull set, a value of a kind the encoder does not know *)
(* is written as null and the call returns its bytes and no error; with it *)
(* unset the call fails with the unsupported-type error naming the type.   *)
C5_UnknownAsNull ==
    op = "MarshalWithOptions" /\ value = ChanValue =>
        IF options.UnknownAsNull
        THEN result.err = NoError /\ result.bytes = KwNull
        ELSE result.err = UnsupportedType("chan int")

RECURSIVE Supported(_)
(* every node is a null, bool, integer, float, string, sequence or mapping *)
Supported(v) ==
    CASE v.kind = "Slice" -> \A i \in 1..Len(v.elems) : Supported(v.elems[i])
      [] v.kind = "Map" ->
            \A i \in 1..Len(v.entries) : Supported(v.entries[i].val)
      [] OTHER -> v.kind \in {"Nil", "NilPtr", "Bool", "Int", "Uint", "Float",
                              "String"}

RECURSIVE DecimalDigits(_)
DecimalDigits(n) ==
    (IF n >= 10 THEN DecimalDigits(n \div 10) ELSE <<>>) \o <<48 + (n % 10)>>

Decimal(n) == IF n < 0 THEN <<45>> \o DecimalDigits(-n) ELSE DecimalDigits(n)

(* C6: a call on a value whose nodes are all of the supported kinds        *)
(* returns bytes and no error, and writes every integer in base 10.        *)
C6_NoFailure ==
    Called /\ Supported(value) =>
        /\ result.err = NoError
        /\ \A i \in CallIds :
              LET c == e.calls[i]
              IN  c.v.kind \in {"Int", "Uint"} =>
                     Span(c) = c.separator \o Decimal(c.v.n)

(* C7: negative zero is written 0 without AllowMinusZero and -0 with it;   *)
(* positive zero is written 0 either way.                                  *)
C7_MinusZero ==
    /\ op = "MarshalWithOptions" /\ value = FloatValue("-0") =>
          result.bytes = IF options.AllowMinusZero THEN <<45, 48>> ELSE <<48>>
    /\ op = "MarshalWithOptions" /\ value = FloatValue("+0") =>
          result.bytes = <<48>>

====
